---- MODULE Spec2Model ----
(***************************************************************************)
(* hashdict: a string-keyed, string-valued hash table with chained         *)
(* collision resolution (hashdict.c / hashdict.h).                         *)
(*                                                                         *)
(* The heap is modelled explicitly.  Entry nodes live in a pool of         *)
(* addresses 1..MaxNodes; malloc hands out the lowest free address, free   *)
(* marks the block released and leaves its content indeterminate.  A       *)
(* string pointer is a pair <<tag, bytes>> with tag "live", "null" or       *)
(* "uninit"; str_blocks counts the string blocks that are allocated and    *)
(* not yet released.                                                       *)
(*                                                                         *)
(* Calls run to completion one after the other, except in the runs of    *)
(* SpecThreads, where two threads execute hd_entry_insert statement by     *)
(* statement, with or without a lock of their own around each call.        *)
(*                                                                         *)
(* Undefined behaviour: a read or write through a NULL pointer or through  *)
(* a pointer to a released node faults (status = "fault": the call never   *)
(* returns and no call follows).  The one such operation with a defined    *)
(* continuation, hd_stralloc's memcpy to the NULL that malloc returned, has *)
(* both outcomes: the fault, and hd_stralloc returning NULL.               *)
(***************************************************************************)
EXTENDS Integers, Sequences, FiniteSets, TLC

VARIABLES
    entries,        \* dict->entries, the bucket array
    num_entries,    \* dict->num_entries
    collisions,     \* dict->collisions (DEBUG builds)
    alloced_bytes,  \* dict->alloced_bytes (DEBUG builds)
    debug,          \* whether the build defines DEBUG
    heap,           \* the pool of entry nodes
    str_blocks,     \* the number of allocated string blocks
    status,         \* "ok", or "fault" once a call has faulted
    last,           \* the last API call and what it returned
    shadow,         \* the caller's record: key -> value of the calls that returned 0
    pc,             \* per calling thread: where it is inside a call, and its locals
    mutex           \* the callers' own lock: "unused", "free", or the holding thread

vars == << entries, num_entries, collisions, alloced_bytes, debug, heap,
           str_blocks, status, last, shadow, pc, mutex >>

(* ---------------------------------------------------------------- bounds *)

\* size of the pool of entry nodes malloc can hand out
MaxNodes == 3

\* DEBUG builds: the runs stop counting collisions at MaxCollisions and keep
\* alloced_bytes within -MaxBytes..MaxBytes
MaxCollisions == 2

MaxBytes == 64

\* the longest key hd_hash is applied to on its own: 5381 * 33^11 exceeds
\* 2^64, so the hash of a key of 11 bytes or more has wrapped around
MaxLen == 12

(* ------------------------------------------------------------- constants *)

HASHSIZE == 1024

EINVAL == 22

ENOMEM == 12

NULL == 0

\* sizeof(struct hd_entry): three pointers (LP64)
SizeofEntry == 24

\* sizeof(entry->key), sizeof(entry->value): a char* (LP64)
SizeofPtr == 8

\* the marker of a node pointer that was never assigned
UNINIT == -1

\* the addresses of the pool of entry nodes
NodeAddr == DOMAIN heap

Buckets == 0..(HASHSIZE - 1)

(* --------------------------------------------------------------- strings *)

\* keys of the model, as byte sequences: "ab", "bA" and "Ba" share bucket
\* 808 ("ab" and "bA" even share the full hash), "c" is alone in bucket 520
Keys == { <<97, 98>>, <<98, 65>>, <<66, 97>>, <<99>> }

\* the keys of the runs over three buckets: "Ba" and "ab" in bucket 808, "c"
\* in bucket 520, "d" in bucket 521
KeysBuckets == { <<66, 97>>, <<97, 98>>, <<99>>, <<100>> }

\* every key some run calls with
AllKeys == Keys \cup KeysBuckets

\* values of the model: "1" and "22"
Values == { <<49>>, <<50, 50>> }

\* a key argument that is the NULL pointer
NullArg == <<0, 0, 0>>

StrNull == <<"null", <<>>>>

StrUninit == <<"uninit", <<>>>>

StrLive(s) == <<"live", s>>

IsLive(p) == p[1] = "live"

Bytes(p) == p[2]

(* ------------------------------------------------------------------ hash *)

\* unsigned long as four 16-bit limbs, least significant first
Limb == 65536

U64(n) == << n % Limb, (n \div Limb) % Limb, 0, 0 >>

\* a + b modulo 2^64
AddU64(a, b) ==
    LET s1 == a[1] + b[1]
        s2 == a[2] + b[2] + (s1 \div Limb)
        s3 == a[3] + b[3] + (s2 \div Limb)
        s4 == a[4] + b[4] + (s3 \div Limb)
    IN  << s1 % Limb, s2 % Limb, s3 % Limb, s4 % Limb >>

\* a left shift by 4 (hash * 17 in place of hash * 33)
Shl4U64(a) ==
    LET s1 == a[1] * 16
        s2 == a[2] * 16 + (s1 \div Limb)
        s3 == a[3] * 16 + (s2 \div Limb)
        s4 == a[4] * 16 + (s3 \div Limb)
    IN  << s1 % Limb, s2 % Limb, s3 % Limb, s4 % Limb >>

\* a << 5 modulo 2^64
Shl5U64(a) ==
    LET s1 == a[1] * 32
        s2 == a[2] * 32 + (s1 \div Limb)
        s3 == a[3] * 32 + (s2 \div Limb)
        s4 == a[4] * 32 + (s3 \div Limb)
    IN  << s1 % Limb, s2 % Limb, s3 % Limb, s4 % Limb >>

\* int c = *key++ converted to unsigned long: a plain char is signed, so a
\* byte above 0x7F is a negative int and converts to 2^64 - (256 - byte)
CharToU64(b) ==
    IF b < 128 THEN U64(b)
    ELSE << Limb - (256 - b), Limb - 1, Limb - 1, Limb - 1 >>

\* hash = ((hash << 5) + hash) + c
HashStep(h, b) == AddU64(AddU64(Shl5U64(h), h), CharToU64(b))

RECURSIVE HashLoop(_, _, _)
HashLoop(h, key, i) ==
    IF i > Len(key) THEN h ELSE HashLoop(HashStep(h, key[i]), key, i + 1)

\* hash % HASHSIZE: HASHSIZE divides 2^16, so the low limb decides
djb2(key) == HashLoop(U64(5381), key, 1)[1] % HASHSIZE

\* hd_hash is pure: its value on the keys of the model, computed once
HashOfKey == [ k \in AllKeys |-> djb2(k) ]

hd_hash(key) == HashOfKey[key]

(* ------------------------------------------------------------------ heap *)

\* a node block that is not allocated: its content is indeterminate
FreeNode == [ live |-> FALSE, next |-> UNINIT, key |-> StrUninit, value |-> StrUninit ]

\* malloc(sizeof(struct hd_entry)): the lowest free address, NULL if none
malloc_node(h) ==
    IF \E n \in NodeAddr : ~h[n].live
    THEN CHOOSE n \in NodeAddr : ~h[n].live /\ \A m \in NodeAddr : m < n => h[m].live
    ELSE NULL

\* the node a pointer refers to can be read and written
Deref(h, p) == p \in NodeAddr /\ h[p].live

(* ----------------------------------------------------------------- state *)

\* dict->entries is kept sparsely: a function from the occupied bucket
\* indices to the head pointers; every slot outside its domain holds NULL
Slot(e, b) == IF b \in DOMAIN e THEN e[b] ELSE NULL

\* dict->entries[b] = p
SetSlot(e, b, p) ==
    [ c \in (IF p = NULL THEN DOMAIN e \ {b} ELSE DOMAIN e \cup {b}) |->
        IF c = b THEN p ELSE e[c] ]

\* memset(dict.entries, 0, sizeof(dict.entries))
NoEntries == [ b \in {} |-> NULL ]

\* the record of the last API call: its arguments, whether it returned, the
\* int it returned (rc) or, for hd_lookup, the pointer it returned (out)
\* fail names the allocation of the call that malloc refused, if any
Call(op, d, key, value, fail, rc, out) ==
    [ op |-> op, dict |-> d, key |-> key, value |-> value, fail |-> fail,
      rc |-> rc, out |-> out ]

NoCall == Call("create", "dict", <<>>, <<>>, "none", 0, StrNull)

\* the calling threads
Threads == { "t1", "t2" }

\* a slot address that names nothing
NoWhere == << "none", 0 >>

\* a thread outside every call
Idle == [ at |-> "idle", key |-> <<>>, where |-> NoWhere, n |-> 0 ]

\* hd_create, with a pool of nodes blocks of entry nodes for malloc
hd_create_in(nodes) ==
    /\ pc = [ t \in Threads |-> Idle ]
    /\ entries = NoEntries
    /\ num_entries = 0
    /\ collisions = 0
    /\ alloced_bytes = 0
    /\ heap = [ n \in 1..nodes |-> FreeNode ]
    /\ str_blocks = 0
    /\ status = "ok"
    /\ last = NoCall
    /\ shadow = [ k \in AllKeys |-> <<>> ]

hd_create == hd_create_in(MaxNodes)

\* a build without DEBUG: the two diagnostic counters are never written
Init == hd_create /\ debug = FALSE /\ mutex = "unused"

\* the build as hashdict.h configures it: #define DEBUG
InitDebug == hd_create /\ debug = TRUE /\ mutex = "unused"

(* ---------------------------------------------------------------- lookup *)

\* the marker of a walk that dereferenced a released or unassigned pointer
FAULT == -2

\* strcmp(key, e->key) can read both strings
KeyReadable(h, e) == Deref(h, e) /\ IsLive(h[e].key)

\* a lookup loop that compares the first node of the chain only (the step
\* to (*entry_ptr)->next left out)
LookupHeadOnly(h, e, key) ==
    IF ~KeyReadable(h, e) THEN FAULT
    ELSE IF Bytes(h[e].key) = key THEN e
    ELSE NULL

\* the while loop of hd_lookup_entry, from node e
RECURSIVE LookupLoop(_, _, _)
LookupLoop(h, e, key) ==
    IF ~KeyReadable(h, e) THEN FAULT
    ELSE IF Bytes(h[e].key) = key THEN e
    ELSE IF h[e].next = NULL THEN NULL
    ELSE LookupLoop(h, h[e].next, key)

\* a lookup that dereferences its arguments without testing them for NULL
LookupNoNullCheck(d, key) ==
    IF d = "null" \/ key = NullArg THEN FAULT
    ELSE IF num_entries = 0 THEN NULL
    ELSE IF Slot(entries, hd_hash(key)) = NULL THEN NULL
    ELSE LookupLoop(heap, Slot(entries, hd_hash(key)), key)

hd_lookup_entry(d, key) ==
    IF d = "null" \/ key = NullArg THEN NULL
    ELSE IF num_entries = 0 THEN NULL
    ELSE IF Slot(entries, hd_hash(key)) = NULL THEN NULL
    ELSE LookupLoop(heap, Slot(entries, hd_hash(key)), key)

\* entry ? entry->value : NULL
hd_lookup_value(d, key) ==
    LET entry == hd_lookup_entry(d, key)
    IN  IF entry = NULL \/ entry = FAULT THEN StrNull ELSE heap[entry].value

(* ---------------------------------------------------------------- insert *)

\* the table a call leaves behind, the int it returns, and whether it
\* returned at all (ok = FALSE: the call faulted)
Result(e, n, h, sb, rc, ok) ==
    [ entries |-> e, num_entries |-> n, heap |-> h, str_blocks |-> sb,
      collisions |-> collisions, alloced_bytes |-> alloced_bytes,
      rc |-> rc, ok |-> ok ]

\* the #ifdef DEBUG statements: dict->collisions += c, dict->alloced_bytes += b
Dbg(r, c, b) ==
    IF debug
    THEN [ r EXCEPT !.collisions = @ + c, !.alloced_bytes = @ + b ]
    ELSE r

Unchanged(rc) == Result(entries, num_entries, heap, str_blocks, rc, TRUE)

Faulted == Result(entries, num_entries, heap, str_blocks, 0, FALSE)

\* while ((*entry_ptr)->next != NULL) entry_ptr = &((*entry_ptr)->next)
RECURSIVE TailOf(_, _)
TailOf(h, e) ==
    IF ~Deref(h, e) THEN FAULT
    ELSE IF h[e].next = NULL THEN e
    ELSE TailOf(h, h[e].next)

\* the slot *entry_ptr is written through: the bucket head or tail->next
LinkNew(h, hash, tail, new) ==
    IF tail = NULL
    THEN [ entries |-> SetSlot(entries, hash, new), heap |-> h ]
    ELSE [ entries |-> entries, heap |-> [ h EXCEPT ![tail].next = new ] ]

\* hd_entry_insert; fail names the allocation that fails ("none", "node",
\* "key", "value").  hd_stralloc passes malloc's NULL to memcpy: where that
\* write faults the call never returns (ub = "fault"), where it does not,
\* hd_stralloc returns NULL and insert takes its error path (ub = "null")
InsertResult(d, key, value, fail, ub) ==
    LET found == hd_lookup_entry(d, key)
        hash  == hd_hash(key)
        head  == Slot(entries, hash)
        tail  == IF head = NULL THEN NULL ELSE TailOf(heap, head)
        new   == IF fail = "node" THEN NULL ELSE malloc_node(heap)
        fresh == [ live |-> TRUE, next |-> UNINIT, key |-> StrUninit, value |-> StrUninit ]
        h1    == IF new = NULL THEN heap ELSE [ heap EXCEPT ![new] = fresh ]
        lk    == LinkNew(h1, hash, tail, new)
        coll  == IF head = NULL THEN 0 ELSE 1
        bytes == Len(key) + 1 + Len(value) + 1 + SizeofEntry
    IN  IF d = "null" \/ key = NullArg THEN Unchanged(-EINVAL)
        ELSE IF found = FAULT THEN Faulted
        ELSE IF found # NULL THEN Unchanged(-EINVAL)
        ELSE IF tail = FAULT THEN Dbg(Faulted, coll, 0)
        ELSE IF new = NULL
        THEN Dbg(Result(lk.entries, num_entries, lk.heap, str_blocks, -ENOMEM, TRUE),
                 coll, 0)
        ELSE IF fail = "key"
        THEN IF ub = "fault"
             THEN Dbg(Result(lk.entries, num_entries, lk.heap, str_blocks, 0, FALSE),
                      coll, 0)
             ELSE \* err_keyalloc: free(*entry_ptr)
                  Dbg(Result(lk.entries, num_entries,
                             [ lk.heap EXCEPT ![new] = FreeNode ], str_blocks,
                             -ENOMEM, TRUE),
                      coll, 0)
        ELSE IF fail = "value"
        THEN IF ub = "fault"
             THEN Dbg(Result(lk.entries, num_entries,
                             [ lk.heap EXCEPT ![new].key = StrLive(key) ],
                             str_blocks + 1, 0, FALSE),
                      coll, 0)
             ELSE \* err_valalloc: free((*entry_ptr)->key); free(*entry_ptr)
                  Dbg(Result(lk.entries, num_entries,
                             [ lk.heap EXCEPT ![new] = FreeNode ], str_blocks,
                             -ENOMEM, TRUE),
                      coll, 0)
        ELSE Dbg(Result(lk.entries, num_entries + 1,
                        [ lk.heap EXCEPT ![new] = [ live |-> TRUE, next |-> NULL,
                                                    key |-> StrLive(key),
                                                    value |-> StrLive(value) ] ],
                        str_blocks + 2, 0, TRUE),
                 coll, bytes)

\* a call's effect on the state: the table, the record of the call, and
\* the caller's own record of what the return codes told it
Apply(r, op, d, key, value, fail, out, sh) ==
    /\ r.collisions <= MaxCollisions
    /\ r.alloced_bytes \in (-MaxBytes)..MaxBytes
    /\ entries' = r.entries
    /\ num_entries' = r.num_entries
    /\ collisions' = r.collisions
    /\ alloced_bytes' = r.alloced_bytes
    /\ debug' = debug
    /\ heap' = r.heap
    /\ str_blocks' = r.str_blocks
    /\ status' = IF r.ok THEN "ok" ELSE "fault"
    /\ last' = Call(op, d, key, value, fail, r.rc, out)
    /\ shadow' = IF r.ok /\ r.rc = 0 THEN sh ELSE shadow
    /\ UNCHANGED << pc, mutex >>

\* every allocation of the call succeeds; the pool bounds the live nodes
hd_entry_insert(d, key, value) ==
    /\ status = "ok"
    /\ \/ d = "null" \/ key = NullArg
       \/ hd_lookup_entry(d, key) # NULL
       \/ malloc_node(heap) # NULL
    /\ Apply(InsertResult(d, key, value, "none", "null"), "insert", d, key, value,
             "none", StrNull, [ shadow EXCEPT ![key] = value ])

(* ---------------------------------------------------------------- remove *)

\* free(p) of a string: one allocated string block less
FreeStr(sb, p) == IF IsLive(p) THEN sb - 1 ELSE sb

\* the while loop of hd_entry_remove: <<prev_entry, *entry_ptr>> at the
\* match, <<NULL, NULL>> when the chain ends without one
RECURSIVE RemoveLoop(_, _, _, _)
RemoveLoop(h, prev, e, key) ==
    IF ~KeyReadable(h, e) THEN << FAULT, FAULT >>
    ELSE IF Bytes(h[e].key) = key THEN << prev, e >>
    ELSE IF h[e].next = NULL THEN << NULL, NULL >>
    ELSE RemoveLoop(h, e, h[e].next, key)

\* the splice: the bucket head or prev_entry->next takes (*entry_ptr)->next
Unlink(h, hash, prev, e) ==
    IF prev = NULL
    THEN [ entries |-> SetSlot(entries, hash, h[e].next), heap |-> h ]
    ELSE [ entries |-> entries, heap |-> [ h EXCEPT ![prev].next = h[e].next ] ]

\* free((*entry_ptr)->key); free((*entry_ptr)->value); free(*entry_ptr)
FreeEntry(h, e) == [ h EXCEPT ![e] = FreeNode ]

\* *entry_ptr read again after the splice.  entry_ptr is the address of
\* the slot the splice has just written (&dict->entries[hash], or
\* &prev_entry->next), so it now names the successor of the matched node
EntryPtr(e, h, hash, prev) == IF prev = NULL THEN Slot(e, hash) ELSE h[prev].next

\* hd_entry_remove.  After the splice the function releases *entry_ptr:
\* reading (*entry_ptr)->key faults when that pointer is NULL (the matched
\* node was the last of its chain) or names a released node
RemoveResult(d, key) ==
    LET hash == hd_hash(key)
        head == Slot(entries, hash)
        at   == RemoveLoop(heap, NULL, head, key)
        prev == at[1]
        e    == at[2]
        ul   == Unlink(heap, hash, prev, e)
        p    == EntryPtr(ul.entries, ul.heap, hash, prev)
    IN  IF d = "null" \/ key = NullArg THEN Unchanged(-EINVAL)
        ELSE IF num_entries = 0 THEN Unchanged(-EINVAL)
        ELSE IF head = NULL THEN Unchanged(-EINVAL)
        ELSE IF e = FAULT THEN Faulted
        ELSE IF e = NULL THEN Unchanged(-EINVAL)
        ELSE IF ~Deref(ul.heap, p) \/ ~IsLive(ul.heap[p].key)
                \/ ~IsLive(ul.heap[p].value)
        THEN Result(ul.entries, num_entries - 1, ul.heap, str_blocks, 0, FALSE)
        ELSE Dbg(Result(ul.entries, num_entries - 1, FreeEntry(ul.heap, p),
                        FreeStr(FreeStr(str_blocks, ul.heap[p].key), ul.heap[p].value),
                        0, TRUE),
                 0, -(Len(Bytes(ul.heap[p].key)) + Len(Bytes(ul.heap[p].value))
                      + SizeofEntry))

hd_entry_remove(d, key) ==
    /\ status = "ok"
    /\ Apply(RemoveResult(d, key), "remove", d, key, <<>>, "none", StrNull,
             [ shadow EXCEPT ![key] = <<>> ])

(* ---------------------------------------------------------------- lookup *)

hd_lookup(d, key) ==
    /\ status = "ok"
    /\ Apply(IF hd_lookup_entry(d, key) = FAULT THEN Faulted ELSE Unchanged(0),
             "lookup", d, key, <<>>, "none", hd_lookup_value(d, key), shadow)

(* ---------------------------------------------------------------- update *)

\* free(entry->value); entry->value = new_value
SetValue(h, entry, value) == [ h EXCEPT ![entry].value = StrLive(value) ]

\* hd_entry_update; fail = "value" when hd_stralloc's malloc fails, with
\* the two outcomes of its memcpy to NULL as in InsertResult
UpdateResult(d, key, value, fail, ub) ==
    LET entry == hd_lookup_entry(d, key)
    IN  IF entry = FAULT THEN Faulted
        ELSE IF entry = NULL THEN Unchanged(-EINVAL)
        ELSE IF fail = "value"
        THEN IF ub = "fault" THEN Faulted ELSE Unchanged(-ENOMEM)
        ELSE IF ~IsLive(heap[entry].value) THEN Faulted
        ELSE Dbg(Result(entries, num_entries, SetValue(heap, entry, value),
                        FreeStr(str_blocks + 1, heap[entry].value), 0, TRUE),
                 0, Len(value) - Len(Bytes(heap[entry].value)))

hd_entry_update(d, key, value) ==
    /\ status = "ok"
    /\ Apply(UpdateResult(d, key, value, "none", "null"), "update", d, key, value,
             "none", StrNull, [ shadow EXCEPT ![key] = value ])

(* ------------------------------------------------------------------ free *)

\* hd_free_entry_list: the chain from entry is released from its tail back
\* to entry; t is the table so far, as a Result
RECURSIVE hd_free_entry_list(_, _)
hd_free_entry_list(t, entry) ==
    IF ~t.ok THEN t
    ELSE IF ~Deref(t.heap, entry) THEN [ t EXCEPT !.ok = FALSE ]
    ELSE LET nxt == t.heap[entry].next
             t1  == IF nxt # NULL
                    THEN LET r == hd_free_entry_list(t, nxt)
                         IN  [ r EXCEPT !.heap[entry].next = NULL ]
                    ELSE t
         IN  IF ~t1.ok THEN [ t EXCEPT !.ok = FALSE ]
             ELSE IF ~IsLive(t1.heap[entry].key) \/ ~IsLive(t1.heap[entry].value)
             THEN [ t1 EXCEPT !.ok = FALSE ]
             ELSE Dbg([ t1 EXCEPT !.heap = FreeEntry(t1.heap, entry),
                                  !.str_blocks = t1.str_blocks - 2,
                                  !.num_entries = t1.num_entries - 1 ],
                      0, -(SizeofPtr + SizeofPtr + SizeofEntry))

\* the body of the for loop of hd_free at bucket i
FreeBucket(t, i) ==
    IF Slot(t.entries, i) # NULL
    THEN LET r == hd_free_entry_list(t, Slot(t.entries, i))
         IN  IF r.ok THEN [ r EXCEPT !.entries = SetSlot(r.entries, i, NULL) ] ELSE r
    ELSE t

\* for (int i = 0; i < HASHSIZE; i++): the occupied buckets, in index order
RECURSIVE FreeLoop(_, _)
FreeLoop(t, todo) ==
    IF todo = {} \/ ~t.ok THEN t
    ELSE LET i == CHOOSE b \in todo : \A c \in todo : b <= c
         IN  FreeLoop(FreeBucket(t, i), todo \ {i})

FreeResult(d) ==
    IF d = "null" THEN Unchanged(0)
    ELSE FreeLoop(Unchanged(0), { b \in Buckets : Slot(entries, b) # NULL })

hd_free(d) ==
    /\ status = "ok"
    /\ Apply(FreeResult(d), "free", d, <<>>, <<>>, "none", StrNull,
             IF d = "null" THEN shadow ELSE [ k \in AllKeys |-> <<>> ])

\* the calls of a run pass the table and a key of Keys
Next ==
    \/ \E key \in Keys, value \in Values : hd_entry_insert("dict", key, value)
    \/ \E key \in Keys : hd_entry_remove("dict", key)
    \/ \E key \in Keys : hd_lookup("dict", key)
    \/ \E key \in Keys, value \in Values : hd_entry_update("dict", key, value)
    \/ hd_free("dict")

Spec == Init /\ [][Next]_vars

(* ------------------------------------------------------- NULL arguments *)

\* the runs with NULL arguments: the table or a NULL pointer, a key of two
\* buckets or a NULL pointer
DictArgs == { "dict", "null" }

KeyArgs == { <<97, 98>>, <<98, 65>>, <<99>>, NullArg }

NextArgs ==
    \/ \E d \in DictArgs, key \in KeyArgs, value \in Values :
          hd_entry_insert(d, key, value)
    \/ \E d \in DictArgs, key \in KeyArgs : hd_entry_remove(d, key)
    \/ \E d \in DictArgs, key \in KeyArgs : hd_lookup(d, key)
    \/ \E d \in DictArgs, key \in KeyArgs, value \in Values :
          hd_entry_update(d, key, value)
    \/ \E d \in DictArgs : hd_free(d)

SpecArgs == Init /\ [][NextArgs]_vars

(* ------------------------------------------------- allocation failures *)

\* malloc returns NULL for the node, the key copy or the value copy
hd_entry_insert_nomem(d, key, value, fail, ub) ==
    /\ status = "ok"
    /\ d = "dict" /\ key # NullArg /\ hd_lookup_entry(d, key) = NULL
    /\ fail = "node" \/ malloc_node(heap) # NULL
    /\ Apply(InsertResult(d, key, value, fail, ub), "insert", d, key, value,
             fail, StrNull, shadow)

\* malloc returns NULL for the new value copy
hd_entry_update_nomem(d, key, value, ub) ==
    /\ status = "ok"
    /\ hd_lookup_entry(d, key) \in NodeAddr
    /\ Apply(UpdateResult(d, key, value, "value", ub), "update", d, key, value,
             "value", StrNull, shadow)

Fails == { "node", "key", "value" }

Outcomes == { "fault", "null" }

\* the runs with allocation failures call with the table and three keys,
\* two of them in one bucket
KeysOOM == { <<97, 98>>, <<98, 65>>, <<99>> }

NextOOM ==
    \/ \E key \in KeysOOM, value \in Values : hd_entry_insert("dict", key, value)
    \/ \E key \in KeysOOM : hd_entry_remove("dict", key)
    \/ \E key \in KeysOOM : hd_lookup("dict", key)
    \/ \E key \in KeysOOM, value \in Values : hd_entry_update("dict", key, value)
    \/ hd_free("dict")
    \/ \E key \in KeysOOM, value \in Values, fail \in Fails, ub \in Outcomes :
          hd_entry_insert_nomem("dict", key, value, fail, ub)
    \/ \E key \in KeysOOM, value \in Values, ub \in Outcomes :
          hd_entry_update_nomem("dict", key, value, ub)

SpecOOM == Init /\ [][NextOOM]_vars

(* --------------------------------------------------------------- threads *)

\* hd_entry_insert executed by a thread statement by statement.  The
\* thread's locals are its key, the slot entry_ptr points to (where: a
\* bucket slot or the next field of a node) and the value of num_entries
\* it has loaded (n).  The hashdict has no lock; a caller that serialises
\* its calls takes its own lock before a call and gives it back after.

\* the keys the threads call with, "ab" and "bA" of bucket 808; the value
\* is "1"
KeysThreads == { <<97, 98>>, <<98, 65>> }

\* an entry into a call that does not look at the lock
EnterAlways(t) == t \in Threads

\* no other thread is inside a call: the lock is free, or the callers use
\* none
CanEnter(t) == mutex = "unused" \/ mutex = "free"

\* the lock after thread t has taken it, and after a call has returned
Taken(t) == IF mutex = "unused" THEN "unused" ELSE t

Released == IF mutex = "unused" THEN "unused" ELSE "free"

\* *entry_ptr
ReadWhere(e, h, w) == IF w[1] = "bucket" THEN Slot(e, w[2]) ELSE h[w[2]].next

\* the thread goes on to the statement at label
Goto(t, label) == pc' = [ pc EXCEPT ![t].at = label ]

\* the call of thread t returns rc
Return(t, rc) ==
    /\ pc' = [ pc EXCEPT ![t] = Idle ]
    /\ mutex' = Released
    /\ status' = "ok"
    /\ last' = Call("insert", "dict", pc[t].key, <<49>>, "none", rc, StrNull)
    /\ shadow' = IF rc = 0 THEN [ shadow EXCEPT ![pc[t].key] = <<49>> ] ELSE shadow

\* the call of thread t dereferences a pointer that names no initialised
\* node, and faults
Fault(t, op, key) ==
    /\ status' = "fault"
    /\ last' = Call(op, "dict", key, <<>>, "none", 0, StrNull)
    /\ UNCHANGED << pc, mutex, shadow >>

\* the call begins
insert_begin(t, key) ==
    /\ status = "ok" /\ pc[t].at = "idle" /\ CanEnter(t)
    /\ pc' = [ pc EXCEPT ![t] = [ Idle EXCEPT !.at = "check", !.key = key ] ]
    /\ mutex' = Taken(t)
    /\ UNCHANGED << entries, num_entries, collisions, alloced_bytes, debug, heap,
                    str_blocks, status, last, shadow >>

\* if (... hd_lookup_entry(dict, key) != NULL) return -EINVAL
insert_check(t) ==
    /\ status = "ok" /\ pc[t].at = "check"
    /\ LET found == hd_lookup_entry("dict", pc[t].key)
       IN  IF found = FAULT THEN Fault(t, "insert", pc[t].key)
           ELSE IF found # NULL THEN Return(t, -EINVAL)
           ELSE Goto(t, "find") /\ UNCHANGED << mutex, status, last, shadow >>
    /\ UNCHANGED << entries, num_entries, collisions, alloced_bytes, debug, heap,
                    str_blocks >>

\* entry_ptr = &dict->entries[hash]; if the bucket is occupied, the walk to
\* the node whose next is NULL
insert_find(t) ==
    /\ status = "ok" /\ pc[t].at = "find"
    /\ LET hash == hd_hash(pc[t].key)
           head == Slot(entries, hash)
           tail == IF head = NULL THEN NULL ELSE TailOf(heap, head)
       IN  IF tail = FAULT THEN Fault(t, "insert", pc[t].key)
           ELSE /\ pc' = [ pc EXCEPT ![t].at = "link",
                                     ![t].where = IF head = NULL
                                                  THEN << "bucket", hash >>
                                                  ELSE << "next", tail >> ]
                /\ UNCHANGED << mutex, status, last, shadow >>
    /\ UNCHANGED << entries, num_entries, collisions, alloced_bytes, debug, heap,
                    str_blocks >>

\* (*entry_ptr)->next = malloc(...), or dict->entries[hash] = malloc(...):
\* the new node is linked before any of its fields is written
insert_link(t) ==
    /\ status = "ok" /\ pc[t].at = "link"
    /\ LET new   == malloc_node(heap)
           w     == pc[t].where
           fresh == [ live |-> TRUE, next |-> UNINIT, key |-> StrUninit,
                      value |-> StrUninit ]
           h1    == IF new = NULL THEN heap ELSE [ heap EXCEPT ![new] = fresh ]
       IN  IF w[1] = "next" /\ ~Deref(heap, w[2])
           THEN Fault(t, "insert", pc[t].key) /\ UNCHANGED << entries, heap >>
           ELSE /\ entries' = IF w[1] = "bucket" THEN SetSlot(entries, w[2], new)
                              ELSE entries
                /\ heap' = IF w[1] = "bucket" THEN h1
                           ELSE [ h1 EXCEPT ![w[2]].next = new ]
                /\ IF new = NULL THEN Return(t, -ENOMEM)
                   ELSE Goto(t, "key") /\ UNCHANGED << mutex, status, last, shadow >>
    /\ UNCHANGED << num_entries, collisions, alloced_bytes, debug, str_blocks >>

\* (*entry_ptr)->key = hd_stralloc(key)
insert_key(t) ==
    /\ status = "ok" /\ pc[t].at = "key"
    /\ LET node == ReadWhere(entries, heap, pc[t].where)
       IN  IF ~Deref(heap, node)
           THEN Fault(t, "insert", pc[t].key) /\ UNCHANGED << heap, str_blocks >>
           ELSE /\ heap' = [ heap EXCEPT ![node].key = StrLive(pc[t].key) ]
                /\ str_blocks' = str_blocks + 1
                /\ Goto(t, "value") /\ UNCHANGED << mutex, status, last, shadow >>
    /\ UNCHANGED << entries, num_entries, collisions, alloced_bytes, debug >>

\* (*entry_ptr)->value = hd_stralloc(value)
insert_value(t) ==
    /\ status = "ok" /\ pc[t].at = "value"
    /\ LET node == ReadWhere(entries, heap, pc[t].where)
       IN  IF ~Deref(heap, node)
           THEN Fault(t, "insert", pc[t].key) /\ UNCHANGED << heap, str_blocks >>
           ELSE /\ heap' = [ heap EXCEPT ![node].value = StrLive(<<49>>) ]
                /\ str_blocks' = str_blocks + 1
                /\ Goto(t, "next") /\ UNCHANGED << mutex, status, last, shadow >>
    /\ UNCHANGED << entries, num_entries, collisions, alloced_bytes, debug >>

\* (*entry_ptr)->next = NULL
insert_next(t) ==
    /\ status = "ok" /\ pc[t].at = "next"
    /\ LET node == ReadWhere(entries, heap, pc[t].where)
       IN  IF ~Deref(heap, node)
           THEN Fault(t, "insert", pc[t].key) /\ UNCHANGED heap
           ELSE /\ heap' = [ heap EXCEPT ![node].next = NULL ]
                /\ Goto(t, "load") /\ UNCHANGED << mutex, status, last, shadow >>
    /\ UNCHANGED << entries, num_entries, collisions, alloced_bytes, debug,
                    str_blocks >>

\* dict->num_entries++: the load
insert_load(t) ==
    /\ status = "ok" /\ pc[t].at = "load"
    /\ pc' = [ pc EXCEPT ![t].at = "store", ![t].n = num_entries ]
    /\ UNCHANGED << entries, num_entries, collisions, alloced_bytes, debug, heap,
                    str_blocks, status, last, shadow, mutex >>

\* dict->num_entries++: the store; return 0
insert_store(t) ==
    /\ status = "ok" /\ pc[t].at = "store"
    /\ num_entries' = pc[t].n + 1
    /\ Return(t, 0)
    /\ UNCHANGED << entries, collisions, alloced_bytes, debug, heap, str_blocks >>

\* hd_lookup by a thread that is outside every call, as one step
lookup_call(t, key) ==
    /\ pc[t].at = "idle" /\ CanEnter(t)
    /\ hd_lookup("dict", key)

InitThreads == hd_create /\ debug = FALSE /\ mutex \in { "unused", "free" }

NextThreads ==
    \E t \in Threads :
       \/ \E key \in KeysThreads : insert_begin(t, key)
       \/ insert_check(t)
       \/ insert_find(t)
       \/ insert_link(t)
       \/ insert_key(t)
       \/ insert_value(t)
       \/ insert_next(t)
       \/ insert_load(t)
       \/ insert_store(t)
       \/ \E key \in KeysThreads : lookup_call(t, key)

SpecThreads == InitThreads /\ [][NextThreads]_vars

(* ------------------------------------------------------- hd_hash alone *)

\* the bytes of the keys hd_hash is applied to: the largest byte that is a
\* positive char and the smallest that is a negative one
HashBytes == { 127, 128 }

\* the keys: every string of at most MaxLen of these bytes, the empty
\* string among them
HashKeys == UNION { [ 1..n -> HashBytes ] : n \in 0..MaxLen }

\* hd_hash(key), applied to a key on its own, once per run; rc records what
\* it returned
call_hd_hash(key) ==
    /\ status = "ok"
    /\ last.op = "create"
    /\ last' = Call("hash", "dict", key, <<>>, "none", djb2(key), StrNull)
    /\ UNCHANGED << entries, num_entries, collisions, alloced_bytes, debug, heap,
                    str_blocks, status, shadow, pc, mutex >>

NextHash == \E key \in HashKeys : call_hd_hash(key)

SpecHash == Init /\ [][NextHash]_vars

(* -------------------------------------------------------- three buckets *)

\* the runs over three buckets: one value, and one node block more than
\* the other runs have
InitBuckets == hd_create_in(MaxNodes + 1) /\ debug = FALSE /\ mutex = "unused"

NextBuckets ==
    \/ \E key \in KeysBuckets : hd_entry_insert("dict", key, <<49>>)
    \/ \E key \in KeysBuckets : hd_entry_remove("dict", key)
    \/ \E key \in KeysBuckets : hd_lookup("dict", key)
    \/ hd_free("dict")

SpecBuckets == InitBuckets /\ [][NextBuckets]_vars

(* --------------------------------------------------------- DEBUG build *)

\* the runs of the DEBUG build call with the table and two keys of one
\* bucket
KeysDebug == { <<97, 98>>, <<98, 65>> }

NextDebug ==
    \/ \E key \in KeysDebug, value \in Values : hd_entry_insert("dict", key, value)
    \/ \E key \in KeysDebug : hd_entry_remove("dict", key)
    \/ \E key \in KeysDebug : hd_lookup("dict", key)
    \/ \E key \in KeysDebug, value \in Values : hd_entry_update("dict", key, value)
    \/ hd_free("dict")

SpecDebug == InitDebug /\ [][NextDebug]_vars

(* ------------------------------------------------------ reading the table *)

\* the nodes a walk from pointer p visits, in order; a walk ends at a NULL
\* next and cannot go on past a released node
RECURSIVE ChainFrom(_, _, _)
ChainFrom(h, p, fuel) ==
    IF p = NULL \/ fuel = 0 THEN << >>
    ELSE IF ~Deref(h, p) THEN << p >>
    ELSE << p >> \o ChainFrom(h, h[p].next, fuel - 1)

\* the chain of bucket b
ChainOf(b) == ChainFrom(heap, Slot(entries, b), Cardinality(NodeAddr) + 1)

Range(seq) == { seq[i] : i \in DOMAIN seq }

\* the buckets the keys of the model hash to
KeyBuckets == { hd_hash(k) : k \in Keys }

\* every node some bucket slot leads to
Reachable == UNION { Range(ChainOf(b)) : b \in DOMAIN entries }

\* no bucket slot and no next link of a reachable node names a released node
AllReachableLive == \A n \in Reachable : Deref(heap, n)

\* the live node of key's chain that holds key and is reached through live
\* nodes only; NULL if there is none
KeyNode(key) ==
    LET c    == ChainOf(hd_hash(key))
        hits == { i \in DOMAIN c :
                    /\ \A j \in 1..i : Deref(heap, c[j])
                    /\ heap[c[i]].key = StrLive(key) }
    IN  IF hits = {} THEN NULL
        ELSE c[CHOOSE i \in hits : \A j \in hits : i <= j]

\* what hd_lookup returns for a key the caller holds value v for
Expected(v) == IF v = << >> THEN StrNull ELSE StrLive(v)

\* seq without its element x
RECURSIVE Without(_, _)
Without(seq, x) ==
    IF seq = << >> THEN << >>
    ELSE IF Head(seq) = x THEN Tail(seq)
    ELSE << Head(seq) >> \o Without(Tail(seq), x)

\* the table proper: buckets, nodes, strings and the entry count
table == << entries, num_entries, heap, str_blocks >>

\* the step is a call of op with the table and key k that returned
Returned(op, k) ==
    /\ last'.op = op /\ last'.dict = "dict" /\ last'.key = k
    /\ last'.fail = "none" /\ status' = "ok"

(* ------------------------------------------------------------------ C1 *)

\* C1: after hd_entry_insert(dict, k, v) has returned 0, hd_lookup(dict, k)
\* returns v, and a later insert, update or remove call with another key
\* leaves what hd_lookup(dict, k) returns as it was.
C1_InsertedValueKept ==
    [][ \A k \in Keys :
          /\ (Returned("insert", k) /\ last'.rc = 0)
                => \E v \in Values :
                      last'.value = v /\ hd_lookup_value("dict", k)' = StrLive(v)
          /\ ( /\ last'.op \in { "insert", "update", "remove" }
               /\ last'.key # k
               /\ status' = "ok"
               /\ shadow[k] # << >>
               /\ hd_lookup_value("dict", k) = StrLive(shadow[k]) )
                => hd_lookup_value("dict", k)' = StrLive(shadow[k]) ]_vars

(* ------------------------------------------------------------------ C2 *)

\* C2: round trip.  Every key inserted and not yet removed looks up to its
\* value; hd_entry_remove of such a key returns 0 (so no state is left in
\* which the last call is a remove of a key the caller still holds); a key
\* removed looks up to NULL; and once every key is removed num_entries is 0.
C2_RoundTrip ==
    /\ ~(last.op = "remove" /\ last.key \in Keys /\ shadow[last.key] # << >>)
    /\ status = "ok" =>
          \A k \in Keys : hd_lookup_value("dict", k) = Expected(shadow[k])
    /\ (status = "ok" /\ \A k \in Keys : shadow[k] = << >>) => num_entries = 0

(* ------------------------------------------------------------------ C3 *)

\* C3: hd_entry_remove of a present key returns 0 and releases exactly the
\* matched node: the chain of its bucket is the chain before without that
\* node, the other chains are as before, the matched node is released, no
\* other node changes its allocation state, two string blocks are released,
\* and every node still reachable from the table is live.
C3_RemoveReleasesMatched ==
    [][ \A k \in Keys :
          ( /\ last'.op = "remove" /\ last'.dict = "dict" /\ last'.key = k
            /\ KeyNode(k) # NULL /\ num_entries > 0 )
          => /\ status' = "ok" /\ last'.rc = 0
             /\ ChainOf(hd_hash(k))' = Without(ChainOf(hd_hash(k)), KeyNode(k))
             /\ \A b \in KeyBuckets \ { hd_hash(k) } : ChainOf(b)' = ChainOf(b)
             /\ ~heap'[KeyNode(k)].live
             /\ \A n \in NodeAddr \ { KeyNode(k) } : heap'[n].live = heap[n].live
             /\ str_blocks' = str_blocks - 2
             /\ num_entries' = num_entries - 1
             /\ AllReachableLive' ]_vars

(* ------------------------------------------------------------------ C4 *)

\* C4: after every call that returned, num_entries is the number of entry
\* nodes reachable from the bucket slots, and the number of keys inserted
\* and not yet removed.
C4_NumEntriesExact ==
    status = "ok" =>
       /\ num_entries = Cardinality(Reachable)
       /\ num_entries = Cardinality({ k \in Keys : shadow[k] # << >> })

(* ------------------------------------------------------------------ C5 *)

C6_UpdateReplacesValue ==
    [][ \A k \in Keys :
          /\ ( /\ last'.op = "update" /\ last'.dict = "dict" /\ last'.key = k
               /\ last'.fail = "none"
               /\ KeyNode(k) # NULL /\ num_entries > 0 )
             => /\ status' = "ok" /\ last'.rc = 0
                /\ \E v \in Values :
                      last'.value = v /\ hd_lookup_value("dict", k)' = StrLive(v)
                /\ UNCHANGED << entries, num_entries >>
                /\ \A n \in NodeAddr :
                      /\ heap'[n].live = heap[n].live
                      /\ heap'[n].next = heap[n].next
                      /\ heap'[n].key = heap[n].key
                      /\ n # KeyNode(k) => heap'[n].value = heap[n].value
                /\ str_blocks' = str_blocks
          /\ ( /\ last'.op = "update" /\ last'.dict = "dict" /\ last'.key = k
               /\ last'.fail = "none"
               /\ \A n \in Reachable : heap[n].key # StrLive(k) )
             => /\ status' = "ok" /\ last'.rc = -EINVAL
                /\ UNCHANGED table ]_vars

(* ------------------------------------------------------------------ C7 *)

\* C7: hd_entry_remove of a key that no reachable entry holds returns
\* -EINVAL and leaves num_entries and every chain as they were, whether the
\* table has no entries, the key's bucket is empty, or its chain holds
\* other keys only.
C7_RemoveAbsentRejected ==
    [][ \A k \in Keys :
          ( /\ last'.op = "remove" /\ last'.dict = "dict" /\ last'.key = k
            /\ \A n \in Reachable : heap[n].key # StrLive(k) )
          => /\ status' = "ok" /\ last'.rc = -EINVAL
             /\ UNCHANGED table ]_vars

(* ------------------------------------------------------------------ C8 *)

\* C8: hd_free returns with every bucket slot NULL and num_entries 0, every
\* node and every string block released (none leaked, none released twice:
\* the call does not fault); on a table without entries it changes nothing.
C8_FreeReleasesAll ==
    [][ (last'.op = "free" /\ last'.dict = "dict")
          => /\ status' = "ok"
             /\ entries' = NoEntries
             /\ num_entries' = 0
             /\ \A n \in NodeAddr : ~heap'[n].live
             /\ str_blocks' = 0
             /\ (entries = NoEntries /\ num_entries = 0) => UNCHANGED table ]_vars

(* ------------------------------------------------------------------ C9 *)

\* C9: when an allocation of hd_entry_insert fails, insert returns -ENOMEM,
\* nothing allocated for the attempt stays allocated, the table is as it
\* was before the call, and no bucket slot or next link names the released
\* node.
C9_InsertNoMemLeavesTable ==
    [][ (last'.op = "insert" /\ last'.fail # "none")
          => /\ status' = "ok" /\ last'.rc = -ENOMEM
             /\ UNCHANGED table
             /\ AllReachableLive' ]_vars

(* ----------------------------------------------------------------- C10 *)

\* C10: when the allocation of the new value copy fails in hd_entry_update
\* of a present key, update returns -ENOMEM without faulting and the entry
\* keeps its old value.
C10_UpdateNoMemKeepsValue ==
    [][ \A k \in Keys :
          (last'.op = "update" /\ last'.fail = "value" /\ last'.key = k)
          => /\ status' = "ok" /\ last'.rc = -ENOMEM
             /\ hd_lookup_value("dict", k)' = hd_lookup_value("dict", k)
             /\ UNCHANGED table ]_vars

(* ----------------------------------------------------------------- C11 *)

\* C11: DEBUG build.  When hd_free has returned, the diagnostic byte counter
\* alloced_bytes is back at its initial value 0 and num_entries is 0,
\* whatever the lengths of the keys and values the table held.
C11_FreeResetsByteCounter ==
    [][ (last'.op = "free" /\ last'.dict = "dict" /\ status' = "ok")
          => (alloced_bytes' = 0 /\ num_entries' = 0) ]_vars

(* ----------------------------------------------------------------- C12 *)

\* C12: a call that passes a NULL table pointer or a NULL key returns
\* without faulting and leaves the table and the diagnostic counters as
\* they were: hd_entry_insert, hd_entry_remove and hd_entry_update return
\* -EINVAL, hd_lookup returns NULL, and hd_free(NULL) returns.
C12_NullArgsRejected ==
    [][ ( /\ last'.op \in { "insert", "remove", "lookup", "update", "free" }
          /\ (last'.dict = "null" \/ last'.key = NullArg) )
          => /\ status' = "ok"
             /\ UNCHANGED << table, collisions, alloced_bytes >>
             /\ last'.op \in { "insert", "remove", "update" } => last'.rc = -EINVAL
             /\ last'.op = "lookup" => last'.out = StrNull ]_vars

\* C12 witness: an update of a key the table holds, called with a NULL table
\* pointer, was rejected
C12_Witness ==
    /\ num_entries > 0 /\ status = "ok"
    /\ last.op = "update" /\ last.dict = "null" /\ last.key # NullArg
    /\ last.rc = -EINVAL
    /\ KeyNode(last.key) # NULL

(* ----------------------------------------------------------------- C13 *)

\* the value of the first entry of chain c whose key is key, NULL if the
\* chain holds no such entry
RECURSIVE FirstMatch(_, _, _)
FirstMatch(h, c, key) ==
    IF c = << >> THEN StrNull
    ELSE IF h[Head(c)].key = StrLive(key) THEN h[Head(c)].value
    ELSE FirstMatch(h, Tail(c), key)

\* C13: hd_lookup returns and leaves the table and the diagnostic counters
\* as they were; it returns NULL when the table has no entries, the key's
\* bucket is empty or the chain holds no entry with exactly that key, and
\* otherwise the value of the first entry of the chain with that key.
C13_LookupReadsOnly ==
    [][ \A k \in Keys :
          (last'.op = "lookup" /\ last'.dict = "dict" /\ last'.key = k)
          => /\ status' = "ok"
             /\ UNCHANGED << table, collisions, alloced_bytes >>
             /\ last'.out = IF num_entries = 0 THEN StrNull
                            ELSE FirstMatch(heap, ChainOf(hd_hash(k)), k) ]_vars

(* ----------------------------------------------------------------- C14 *)

\* the number of live entries reachable from the buckets that hold key
KeyCount(key) ==
    Cardinality({ n \in Reachable : Deref(heap, n) /\ heap[n].key = StrLive(key) })

WellFormed(c) ==
    /\ \A i \in DOMAIN c :
          Deref(heap, c[i]) /\ IsLive(heap[c[i]].key) /\ IsLive(heap[c[i]].value)
    /\ \A i, j \in DOMAIN c : c[i] = c[j] => i = j
    /\ c # << >> => heap[c[Len(c)]].next = NULL

\* C15: after every call that returned, every entry reachable from bucket b
\* holds a key that hashes to b, every chain is acyclic and ends in NULL,
\* and no entry is reachable from two bucket slots.
C15_ChainsExact ==
    status = "ok" =>
       /\ \A b \in DOMAIN entries :
             /\ WellFormed(ChainOf(b))
             /\ \A n \in Range(ChainOf(b)) :
                   Bytes(heap[n].key) \in Keys /\ hd_hash(Bytes(heap[n].key)) = b
       /\ \A b, c \in DOMAIN entries :
             b # c => Range(ChainOf(b)) \cap Range(ChainOf(c)) = {}

(* ----------------------------------------------------------------- C16 *)

\* C16: after every call that returned, no two entries of a chain, and no
\* two entries of the table, hold equal keys.
C16_NoEqualKeys ==
    status = "ok" =>
       /\ \A b \in DOMAIN entries :
             \A i, j \in DOMAIN ChainOf(b) :
                ( /\ i # j
                  /\ Deref(heap, ChainOf(b)[i]) /\ Deref(heap, ChainOf(b)[j])
                  /\ IsLive(heap[ChainOf(b)[i]].key) )
                => heap[ChainOf(b)[i]].key # heap[ChainOf(b)[j]].key
       /\ \A n, m \in Reachable :
             (n # m /\ Deref(heap, n) /\ Deref(heap, m) /\ IsLive(heap[n].key))
             => heap[n].key # heap[m].key

(* ----------------------------------------------------------------- C17 *)

\* the keys and the values of the entries of bucket b's chain, in chain order
ChainKeys(b) == [ i \in DOMAIN ChainOf(b) |-> heap[ChainOf(b)[i]].key ]

ChainValues(b) == [ i \in DOMAIN ChainOf(b) |-> heap[ChainOf(b)[i]].value ]

\* C17: a hd_entry_insert that returned 0 has put the new entry at the end
\* of its bucket's chain (at the head when the bucket was empty): the
\* chain is the chain before with one more node, which holds the key and
\* the value of the call, and the entries before it and the chains of all
\* other buckets are as they were, nodes, keys, values and order.
C17_InsertAppends ==
    [][ \A k \in Keys :
          (Returned("insert", k) /\ last'.rc = 0)
          => /\ Len(ChainOf(hd_hash(k))') = Len(ChainOf(hd_hash(k))) + 1
             /\ SubSeq(ChainOf(hd_hash(k))', 1, Len(ChainOf(hd_hash(k))))
                   = ChainOf(hd_hash(k))
             /\ ChainKeys(hd_hash(k))' = Append(ChainKeys(hd_hash(k)), StrLive(k))
             /\ ChainValues(hd_hash(k))'
                   = Append(ChainValues(hd_hash(k)), StrLive(last'.value))
             /\ \A b \in (DOMAIN entries \cup DOMAIN entries') \ { hd_hash(k) } :
                   /\ ChainOf(b)' = ChainOf(b)
                   /\ ChainKeys(b)' = ChainKeys(b)
                   /\ ChainValues(b)' = ChainValues(b) ]_vars

(* ----------------------------------------------------------------- C18 *)

\* what hd_entry_insert and the updates add to alloced_bytes for the entry
\* of node n: strlen(key) + 1 + strlen(value) + 1 + sizeof(struct hd_entry)
EntryBytes(n) ==
    Len(Bytes(heap[n].key)) + 1 + Len(Bytes(heap[n].value)) + 1 + SizeofEntry

RECURSIVE SumBytes(_)
SumBytes(nodes) ==
    IF nodes = {} THEN 0
    ELSE LET n == CHOOSE m \in nodes : TRUE
         IN  EntryBytes(n) + SumBytes(nodes \ {n})

\* C18: DEBUG build.  After every call that returned, alloced_bytes is the
\* sum over the live entries of the table of strlen(key) + 1 + strlen(value)
\* + 1 + sizeof(struct hd_entry); so an insert followed by a remove of the
\* same key restores the counter.
C18_ByteCounterExact ==
    (status = "ok" /\ last.op \in { "create", "insert", "update", "remove", "lookup" })
       => alloced_bytes = SumBytes({ n \in Reachable : Deref(heap, n) })

(* ----------------------------------------------------------------- C20 *)

\* the value of a byte as hash = hash * 33 + c adds it: the char converted
\* to int, which for a byte above 0x7F is the byte minus 256
CharValue(b) == IF b < 128 THEN b ELSE b - 256

\* hash = hash * 33 + c from 5381, followed modulo HASHSIZE: HASHSIZE
\* divides 2^64, so the wraparound of the unsigned long leaves it unchanged
RECURSIVE Times33(_, _, _)
Times33(r, key, i) ==
    IF i > Len(key) THEN r
    ELSE Times33((r * 33 + CharValue(key[i])) % HASHSIZE, key, i + 1)

\* C20: hd_hash(key) depends on the bytes of key alone and writes nothing;
\* it is 5381 taken through hash = hash * 33 + c for each byte, wrapped to
\* the unsigned long and reduced modulo HASHSIZE, so it lies in
\* 0..HASHSIZE-1 for every key, the empty string and keys with bytes above
\* 0x7F included.
C20_HashInRange ==
    [][ last'.op = "hash"
          => /\ last'.rc \in 0..(HASHSIZE - 1)
             /\ last'.rc = Times33(5381 % HASHSIZE, last'.key, 1)
             /\ UNCHANGED << table, collisions, alloced_bytes >> ]_vars

\* C20 witness: hd_hash has returned for a key of MaxLen bytes, long enough
\* for the unsigned long to wrap, that holds bytes above 0x7F and below
C20_Witness ==
    /\ last.op = "hash" /\ Len(last.key) = MaxLen
    /\ \E i, j \in DOMAIN last.key : last.key[i] > 127 /\ last.key[j] <= 127
    /\ last.rc \in 0..(HASHSIZE - 1)

(* ----------------------------------------------------------------- C19 *)

\* every thread is outside every call
AllIdle == \A t \in Threads : pc[t].at = "idle"

====
